---- MODULE Spec2Model ----
(***************************************************************************)
(* Warbler: the route handlers of app.py over the relational store        *)
(* (users, messages, follow edges, like edges) and the per-browser        *)
(* session.  One action per route handler; every action handles one whole *)
(* request, from the before_request hook to the response.                 *)
(***************************************************************************)
EXTENDS Integers, Sequences, FiniteSets, Bags, TLC

\* Bounds of the model.
MaxUsers == 2
MaxMsgs == 2
FeedExtra == 2

\* The page size of the home feed.
PAGE_SIZE == 100

\* g.user = None; also "CURR_USER_KEY not in session".
None == 0

\* The browsers (cookie jars) that talk to the application; each holds one
\* session.
Clients == {"c1"}

VARIABLES users, messages, follows, likes, session, nextUserId, nextMsgId, last

vars == <<users, messages, follows, likes, session, nextUserId, nextMsgId, last>>

store == <<users, messages, follows, likes>>

-----------------------------------------------------------------------------
\* Request inputs.

Form(username, password, email, image_url, header_image_url, bio, text) ==
    [username |-> username, password |-> password, email |-> email,
     image_url |-> image_url, header_image_url |-> header_image_url,
     bio |-> bio, text |-> text]

NoForm == Form("", "", "", "", "", "", "")

UserAddForm ==
    { Form("u1", "pw1", "e1", "", "", "", ""),
      Form("u2", "pw2", "e2", "img", "", "", ""),
      Form("u1", "pw1", "e2", "", "", "", "") }

LoginForm ==
    { Form("u1", "pw1", "", "", "", "", ""),
      Form("u1", "pw2", "", "", "", "", ""),
      Form("u2", "pw2", "", "", "", "", "") }

EditForm ==
    { Form("u1", "pw1", "e1", "", "hdr", "", ""),
      Form("u2", "pw1", "e2", "img", "", "bio", "") }

MessageForm == { Form("", "", "", "", "", "", "Hello") }

\* A submission of a form: its fields and whether validate_on_submit()
\* accepts it (a GET, a missing field or a bad anti-forgery token does not).
Submissions(forms) ==
    { [form |-> f, valid |-> TRUE] : f \in forms }
    \cup { [form |-> NoForm, valid |-> FALSE] }

\* Path parameters: ids that exist, that existed once, that never existed.
UserIds == 1..MaxUsers
MessageIds == 1..MaxMsgs

Request(op, c, arg, valid, form) ==
    [op |-> op, client |-> c, arg |-> arg, valid |-> valid, form |-> form]

-----------------------------------------------------------------------------
\* Responses.

Response(status, path, id, flashed, msgs) ==
    [status |-> status, to |-> <<path, id>>, flash |-> flashed, messages |-> msgs]

redirect(path, id, flashed) == Response("redirect", path, id, flashed, <<>>)
render_template(template) == Response("render", template, 0, "", <<>>)
render_flash(template, flashed) == Response("render", template, 0, flashed, <<>>)
render_messages(template, msgs) == Response("render", template, 0, "", msgs)
NotFound == Response("not_found", "", 0, "", <<>>)
Unauthorized == Response("unauthorized", "", 0, "", <<>>)
ServerError(exc) == Response("error", exc, 0, "", <<>>)

AccessUnauthorized == redirect("/", 0, "Access unauthorized.")

\* The request just handled, its response, whether it repeats the request
\* handled immediately before it, and the like edges it found.
Done(req, resp) ==
    [req |-> req, resp |-> resp, repeat |-> (last.req = req), found |-> likes]

-----------------------------------------------------------------------------
\* The session and the before_request hook.

add_user_and_csrf_to_g(c) ==
    IF session[c] # None
    THEN [user |-> IF session[c] \in DOMAIN users THEN session[c] ELSE None,
          csrf_form |-> TRUE]
    ELSE [user |-> None, csrf_form |-> FALSE]

do_login(sess, c, user_id) == [sess EXCEPT ![c] = user_id]

do_logout_keeps_key(sess, c) == sess

do_logout(sess, c) == IF sess[c] # None THEN [sess EXCEPT ![c] = None] ELSE sess

-----------------------------------------------------------------------------
\* The relational model (models.py): users, messages, follow and like edges.

DEFAULT_IMAGE_URL == "/static/images/default-pic.png"
DEFAULT_HEADER_IMAGE_URL == "/static/images/warbler-hero.jpg"

\* form.field.data or default
OrDefault(data, default) == IF data = "" THEN default ELSE data

\* The stored password is a hash of the password, never the password.
generate_password_hash(password) == <<"bcrypt", password>>
check_password_hash(hashed, password) == hashed = generate_password_hash(password)

\* User.signup: the row the session would insert.
User_signup(username, password, email, image_url) ==
    [username |-> username, email |-> email,
     password |-> generate_password_hash(password),
     image_url |-> image_url,
     header_image_url |-> DEFAULT_HEADER_IMAGE_URL, bio |-> ""]

\* The unique constraints on users.username and users.email: whether a
\* commit that leaves user `id` with this row raises IntegrityError.
IntegrityError(table, id, row) ==
    \E o \in DOMAIN table \ {id} :
        table[o].username = row.username \/ table[o].email = row.email

\* User.authenticate: the user id, or None (a false value) on any mismatch.
User_authenticate(username, password) ==
    LET found == {u \in DOMAIN users : users[u].username = username}
    IN IF found = {} THEN None
       ELSE LET u == CHOOSE x \in found : TRUE
            IN IF check_password_hash(users[u].password, password) THEN u ELSE None

\* A follow edge is the row (user_following_id, user_being_followed_id); a
\* like edge is the row (user_id, message_id).  The tables are bags of rows.
Row(a, b) == <<a, b>>

DeleteRows(table, rows) == [r \in BagToSet(table) \ rows |-> table[r]]

\* user.following and user.followers: forward and reverse traversal of the
\* follow table.
Following(table, u) == { r[2] : r \in { x \in BagToSet(table) : x[1] = u } }
Followers(table, v) == { r[1] : r \in { x \in BagToSet(table) : x[2] = v } }
following(u) == Following(follows, u)
followers(v) == Followers(follows, v)
is_following(u, v) == v \in following(u)
is_followed_by(v, u) == u \in followers(v)

\* user.liked_messages
liked_messages(u) == { r[2] : r \in { x \in BagToSet(likes) : x[1] = u } }

\* A relationship collection is loaded from its table, changed in memory and
\* flushed at commit: the flush inserts a row for each member that the
\* loaded collection did not hold, and deletes the rows of each member that
\* the collection no longer holds.
collection_append_blind(table, row) == table (+) SetToBag({row})

collection_append(table, row) ==
    IF BagIn(row, table) THEN table ELSE table (+) SetToBag({row})

collection_remove_nothing(table, row) == table

collection_remove(table, row) == DeleteRows(table, {row})

\* ON DELETE CASCADE from a message to its like edges.
cascade_message_likes(table, gone) ==
    DeleteRows(table, { r \in BagToSet(table) : r[2] \in gone })

\* ON DELETE CASCADE from a user to their messages and edges.
messages_of(u) == { m \in DOMAIN messages : messages[m].user_id = u }

cascade_user_messages(table, u) ==
    [m \in DOMAIN table \ messages_of(u) |-> table[m]]

cascade_user_follows(table, u) ==
    DeleteRows(table, { r \in BagToSet(table) : r[1] = u \/ r[2] = u })

cascade_user_likes(table, u) ==
    DeleteRows(cascade_message_likes(table, messages_of(u)),
               { r \in BagToSet(table) : r[1] = u })

-----------------------------------------------------------------------------
\* User signup/login/logout

signup_logs_in_existing(c, form, valid) ==
    LET req == Request("signup", c, 0, valid, form)
        sess == do_logout(session, c)
        id == nextUserId
        user == User_signup(form.username, form.password, form.email,
                            OrDefault(form.image_url, DEFAULT_IMAGE_URL))
    IN IF valid
       THEN /\ nextUserId <= MaxUsers
            /\ IF IntegrityError(users, id, user)
               THEN /\ session' = do_login(sess, c, CHOOSE o \in DOMAIN users :
                                    users[o].username = user.username \/ users[o].email = user.email)
                    /\ last' = Done(req, render_flash("users/signup.html",
                                                      "Username already taken"))
                    /\ UNCHANGED <<users, messages, follows, likes,
                                   nextUserId, nextMsgId>>
               ELSE /\ users' = (id :> user) @@ users
                    /\ nextUserId' = id + 1
                    /\ session' = do_login(sess, c, id)
                    /\ last' = Done(req, redirect("/", 0, ""))
                    /\ UNCHANGED <<messages, follows, likes, nextMsgId>>
       ELSE /\ session' = sess
            /\ last' = Done(req, render_template("users/signup.html"))
            /\ UNCHANGED <<users, messages, follows, likes, nextUserId, nextMsgId>>

signup(c, form, valid) ==
    LET req == Request("signup", c, 0, valid, form)
        sess == do_logout(session, c)
        id == nextUserId
        user == User_signup(form.username, form.password, form.email,
                            OrDefault(form.image_url, DEFAULT_IMAGE_URL))
    IN IF valid
       THEN /\ nextUserId <= MaxUsers
            /\ IF IntegrityError(users, id, user)
               THEN /\ session' = sess
                    /\ last' = Done(req, render_flash("users/signup.html",
                                                      "Username already taken"))
                    /\ UNCHANGED <<users, messages, follows, likes,
                                   nextUserId, nextMsgId>>
               ELSE /\ users' = (id :> user) @@ users
                    /\ nextUserId' = id + 1
                    /\ session' = do_login(sess, c, id)
                    /\ last' = Done(req, redirect("/", 0, ""))
                    /\ UNCHANGED <<messages, follows, likes, nextMsgId>>
       ELSE /\ session' = sess
            /\ last' = Done(req, render_template("users/signup.html"))
            /\ UNCHANGED <<users, messages, follows, likes, nextUserId, nextMsgId>>

login_by_username_only(c, form, valid) ==
    LET req == Request("login", c, 0, valid, form)
        found == {u \in DOMAIN users : users[u].username = form.username}
        user == IF found = {} THEN None ELSE CHOOSE u \in found : TRUE
    IN IF valid
       THEN IF user # None
            THEN /\ session' = do_login(session, c, user)
                 /\ last' = Done(req, redirect("/", 0, "Hello!"))
                 /\ UNCHANGED <<store, nextUserId, nextMsgId>>
            ELSE /\ last' = Done(req, render_flash("users/login.html",
                                                   "Invalid credentials."))
                 /\ UNCHANGED <<store, session, nextUserId, nextMsgId>>
       ELSE /\ last' = Done(req, render_template("users/login.html"))
            /\ UNCHANGED <<store, session, nextUserId, nextMsgId>>

login(c, form, valid) ==
    LET req == Request("login", c, 0, valid, form)
        user == User_authenticate(form.username, form.password)
    IN IF valid
       THEN IF user # None
            THEN /\ session' = do_login(session, c, user)
                 /\ last' = Done(req, redirect("/", 0, "Hello!"))
                 /\ UNCHANGED <<store, nextUserId, nextMsgId>>
            ELSE /\ last' = Done(req, render_flash("users/login.html",
                                                   "Invalid credentials."))
                 /\ UNCHANGED <<store, session, nextUserId, nextMsgId>>
       ELSE /\ last' = Done(req, render_template("users/login.html"))
            /\ UNCHANGED <<store, session, nextUserId, nextMsgId>>

logout(c, valid) ==
    LET req == Request("logout", c, 0, valid, NoForm)
        g == add_user_and_csrf_to_g(c)
    IN IF ~g.csrf_form
       THEN \* g.csrf_form was never set: AttributeError
            /\ last' = Done(req, ServerError("AttributeError"))
            /\ UNCHANGED <<store, session, nextUserId, nextMsgId>>
       ELSE IF valid
            THEN /\ session' = do_logout(session, c)
                 /\ last' = Done(req, redirect("/login", 0, "User Logged Out"))
                 /\ UNCHANGED <<store, nextUserId, nextMsgId>>
            ELSE /\ last' = Done(req, redirect("/login", 0, ""))
                 /\ UNCHANGED <<store, session, nextUserId, nextMsgId>>

-----------------------------------------------------------------------------
\* General user routes

Unchanged == UNCHANGED <<store, session, nextUserId, nextMsgId>>

list_users(c) ==
    LET req == Request("list_users", c, 0, FALSE, NoForm)
        g == add_user_and_csrf_to_g(c)
    IN /\ last' = Done(req, IF g.user = None THEN AccessUnauthorized
                            ELSE render_template("users/index.html"))
       /\ Unchanged

show_user(c, user_id) ==
    LET req == Request("show_user", c, user_id, FALSE, NoForm)
        g == add_user_and_csrf_to_g(c)
    IN /\ last' = Done(req, IF g.user = None THEN AccessUnauthorized
                            ELSE IF user_id \notin DOMAIN users THEN NotFound
                            ELSE render_template("users/show.html"))
       /\ Unchanged

show_following(c, user_id) ==
    LET req == Request("show_following", c, user_id, FALSE, NoForm)
        g == add_user_and_csrf_to_g(c)
    IN /\ last' = Done(req, IF g.user = None THEN AccessUnauthorized
                            ELSE IF user_id \notin DOMAIN users THEN NotFound
                            ELSE render_template("users/following.html"))
       /\ Unchanged

show_followers(c, user_id) ==
    LET req == Request("show_followers", c, user_id, FALSE, NoForm)
        g == add_user_and_csrf_to_g(c)
    IN /\ last' = Done(req, IF g.user = None THEN AccessUnauthorized
                            ELSE IF user_id \notin DOMAIN users THEN NotFound
                            ELSE render_template("users/followers.html"))
       /\ Unchanged

show_favorite_warbles(c, user_id) ==
    LET req == Request("show_favorite_warbles", c, user_id, FALSE, NoForm)
        g == add_user_and_csrf_to_g(c)
    IN /\ last' = Done(req, IF g.user = None THEN AccessUnauthorized
                            ELSE render_template("users/liked_warbles.html"))
       /\ Unchanged

start_following_self_allowed(c, follow_id, valid) ==
    LET req == Request("start_following", c, follow_id, valid, NoForm)
        g == add_user_and_csrf_to_g(c)
    IN IF g.user = None \/ ~valid
       THEN /\ last' = Done(req, AccessUnauthorized)
            /\ Unchanged
       ELSE IF follow_id \notin DOMAIN users
       THEN /\ last' = Done(req, NotFound)
            /\ Unchanged
       ELSE IF FALSE
       THEN /\ last' = Done(req, redirect("/users", 0, "You can not follow yourself."))
            /\ Unchanged
       ELSE /\ follows' = collection_append(follows, Row(g.user, follow_id))
            /\ last' = Done(req, redirect("/users/following", g.user, ""))
            /\ UNCHANGED <<users, messages, likes, session, nextUserId, nextMsgId>>

start_following(c, follow_id, valid) ==
    LET req == Request("start_following", c, follow_id, valid, NoForm)
        g == add_user_and_csrf_to_g(c)
    IN IF g.user = None \/ ~valid
       THEN /\ last' = Done(req, AccessUnauthorized)
            /\ Unchanged
       ELSE IF follow_id \notin DOMAIN users
       THEN /\ last' = Done(req, NotFound)
            /\ Unchanged
       ELSE IF follow_id = g.user
       THEN /\ last' = Done(req, redirect("/users", 0, "You can not follow yourself."))
            /\ Unchanged
       ELSE /\ follows' = collection_append(follows, Row(g.user, follow_id))
            /\ last' = Done(req, redirect("/users/following", g.user, ""))
            /\ UNCHANGED <<users, messages, likes, session, nextUserId, nextMsgId>>

stop_following(c, follow_id, valid) ==
    LET req == Request("stop_following", c, follow_id, valid, NoForm)
        g == add_user_and_csrf_to_g(c)
    IN IF g.user = None \/ ~valid
       THEN /\ last' = Done(req, AccessUnauthorized)
            /\ Unchanged
       ELSE IF follow_id \notin DOMAIN users
       THEN /\ last' = Done(req, NotFound)
            /\ Unchanged
       ELSE IF follow_id \notin following(g.user)
       THEN \* list.remove(x): x not in list
            /\ last' = Done(req, ServerError("ValueError"))
            /\ Unchanged
       ELSE /\ follows' = collection_remove(follows, Row(g.user, follow_id))
            /\ last' = Done(req, redirect("/users/following", g.user, ""))
            /\ UNCHANGED <<users, messages, likes, session, nextUserId, nextMsgId>>

profile(c, form, valid) ==
    LET req == Request("profile", c, 0, valid, form)
        g == add_user_and_csrf_to_g(c)
    IN IF g.user = None
       THEN /\ last' = Done(req, AccessUnauthorized)
            /\ Unchanged
       ELSE IF ~valid
       THEN /\ last' = Done(req, render_template("/users/edit.html"))
            /\ Unchanged
       ELSE IF User_authenticate(users[g.user].username, form.password) = None
       THEN /\ last' = Done(req, render_flash("/users/edit.html", "Bad Password"))
            /\ Unchanged
       ELSE LET edited == [users[g.user] EXCEPT
                             !.username = form.username,
                             !.email = form.email,
                             !.image_url = OrDefault(form.image_url, DEFAULT_IMAGE_URL),
                             !.header_image_url =
                                 OrDefault(form.header_image_url, DEFAULT_HEADER_IMAGE_URL),
                             !.bio = OrDefault(form.bio, " ")]
            IN IF IntegrityError(users, g.user, edited)
               THEN \* db.session.rollback()
                    /\ last' = Done(req, render_flash("/users/edit.html",
                                                      "Username Already Taken"))
                    /\ Unchanged
               ELSE /\ users' = [users EXCEPT ![g.user] = edited]
                    /\ last' = Done(req, redirect("/users", g.user, ""))
                    /\ UNCHANGED <<messages, follows, likes, session,
                                   nextUserId, nextMsgId>>

delete_user(c, valid) ==
    LET req == Request("delete_user", c, 0, valid, NoForm)
        g == add_user_and_csrf_to_g(c)
    IN IF g.user = None \/ ~valid
       THEN /\ last' = Done(req, AccessUnauthorized)
            /\ Unchanged
       ELSE /\ users' = [u \in DOMAIN users \ {g.user} |-> users[u]]
            /\ messages' = cascade_user_messages(messages, g.user)
            /\ follows' = cascade_user_follows(follows, g.user)
            /\ likes' = cascade_user_likes(likes, g.user)
            /\ session' = do_logout(session, c)
            /\ last' = Done(req, redirect("/signup", 0, ""))
            /\ UNCHANGED <<nextUserId, nextMsgId>>

-----------------------------------------------------------------------------
\* Messages routes

add_message(c, form, valid) ==
    LET req == Request("add_message", c, 0, valid, form)
        g == add_user_and_csrf_to_g(c)
    IN IF g.user = None
       THEN /\ last' = Done(req, AccessUnauthorized)
            /\ Unchanged
       ELSE IF ~valid
       THEN /\ last' = Done(req, render_template("messages/create.html"))
            /\ Unchanged
       ELSE /\ nextMsgId <= MaxMsgs
            /\ messages' = (nextMsgId :> [text |-> form.text, user_id |-> g.user,
                                          timestamp |-> nextMsgId]) @@ messages
            /\ nextMsgId' = nextMsgId + 1
            /\ last' = Done(req, redirect("/users", g.user, ""))
            /\ UNCHANGED <<users, follows, likes, session, nextUserId>>

show_message(c, message_id) ==
    LET req == Request("show_message", c, message_id, FALSE, NoForm)
        g == add_user_and_csrf_to_g(c)
    IN /\ last' = Done(req, IF g.user = None THEN AccessUnauthorized
                            ELSE IF message_id \notin DOMAIN messages THEN NotFound
                            ELSE render_template("messages/show.html"))
       /\ Unchanged

delete_message_any_user(c, message_id, valid) ==
    LET req == Request("delete_message", c, message_id, valid, NoForm)
        g == add_user_and_csrf_to_g(c)
    IN IF message_id \notin DOMAIN messages
       THEN /\ last' = Done(req, NotFound)
            /\ Unchanged
       ELSE IF g.user = None
       THEN /\ last' = Done(req, AccessUnauthorized)
            /\ Unchanged
       ELSE IF valid
       THEN /\ messages' = [m \in DOMAIN messages \ {message_id} |-> messages[m]]
            /\ likes' = cascade_message_likes(likes, {message_id})
            /\ last' = Done(req, redirect("/users", g.user, ""))
            /\ UNCHANGED <<users, follows, session, nextUserId, nextMsgId>>
       ELSE \* raise Unauthorized()
            /\ last' = Done(req, Unauthorized)
            /\ Unchanged

delete_message(c, message_id, valid) ==
    LET req == Request("delete_message", c, message_id, valid, NoForm)
        g == add_user_and_csrf_to_g(c)
    IN IF message_id \notin DOMAIN messages
       THEN /\ last' = Done(req, NotFound)
            /\ Unchanged
       ELSE IF g.user = None \/ messages[message_id].user_id # g.user
       THEN /\ last' = Done(req, AccessUnauthorized)
            /\ Unchanged
       ELSE IF valid
       THEN /\ messages' = [m \in DOMAIN messages \ {message_id} |-> messages[m]]
            /\ likes' = cascade_message_likes(likes, {message_id})
            /\ last' = Done(req, redirect("/users", g.user, ""))
            /\ UNCHANGED <<users, follows, session, nextUserId, nextMsgId>>
       ELSE \* raise Unauthorized()
            /\ last' = Done(req, Unauthorized)
            /\ Unchanged

handle_favorites_always_adds(c, message_id, valid) ==
    LET req == Request("handle_favorites", c, message_id, valid, NoForm)
        g == add_user_and_csrf_to_g(c)
    IN IF g.user = None \/ ~valid
       THEN /\ last' = Done(req, AccessUnauthorized)
            /\ Unchanged
       ELSE IF message_id \notin DOMAIN messages
       THEN /\ last' = Done(req, NotFound)
            /\ Unchanged
       ELSE /\ likes' = IF TRUE
                        THEN collection_append(likes, Row(g.user, message_id))
                        ELSE collection_remove(likes, Row(g.user, message_id))
            /\ last' = Done(req, redirect("origin_url", 0, ""))
            /\ UNCHANGED <<users, messages, follows, session, nextUserId, nextMsgId>>

handle_favorites(c, message_id, valid) ==
    LET req == Request("handle_favorites", c, message_id, valid, NoForm)
        g == add_user_and_csrf_to_g(c)
    IN IF g.user = None \/ ~valid
       THEN /\ last' = Done(req, AccessUnauthorized)
            /\ Unchanged
       ELSE IF message_id \notin DOMAIN messages
       THEN /\ last' = Done(req, NotFound)
            /\ Unchanged
       ELSE /\ likes' = IF message_id \notin liked_messages(g.user)
                        THEN collection_append(likes, Row(g.user, message_id))
                        ELSE collection_remove(likes, Row(g.user, message_id))
            /\ last' = Done(req, redirect("origin_url", 0, ""))
            /\ UNCHANGED <<users, messages, follows, session, nextUserId, nextMsgId>>

-----------------------------------------------------------------------------
\* Homepage

\* ORDER BY timestamp DESC over the message ids in S, whose timestamps lie
\* in lo..hi: the newer half first, then the older half.
RECURSIVE order_by_timestamp_desc(_, _, _)
order_by_timestamp_desc(S, lo, hi) ==
    IF S = {} THEN <<>>
    ELSE IF lo >= hi
    THEN LET m == CHOOSE x \in S : TRUE
         IN <<m>> \o order_by_timestamp_desc(S \ {m}, lo, hi)
    ELSE LET mid == (lo + hi) \div 2
         IN order_by_timestamp_desc({ m \in S : messages[m].timestamp > mid },
                                    mid + 1, hi)
            \o order_by_timestamp_desc({ m \in S : messages[m].timestamp <= mid },
                                       lo, mid)

limit_none(seq, n) == seq

limit(seq, n) == SubSeq(seq, 1, IF Len(seq) < n THEN Len(seq) ELSE n)

following_ids(u) == following(u) \cup {u}

feed(u) ==
    limit(order_by_timestamp_desc(
              { m \in DOMAIN messages : messages[m].user_id \in following_ids(u) },
              1, nextMsgId - 1),
          PAGE_SIZE)

homepage(c) ==
    LET req == Request("homepage", c, 0, FALSE, NoForm)
        g == add_user_and_csrf_to_g(c)
    IN /\ last' = Done(req, IF g.user # None
                            THEN render_messages("home.html", feed(g.user))
                            ELSE render_template("home-anon.html"))
       /\ Unchanged

-----------------------------------------------------------------------------
Init ==
    /\ users = <<>>
    /\ messages = <<>>
    /\ follows = EmptyBag
    /\ likes = EmptyBag
    /\ session = [c \in Clients |-> None]
    /\ nextUserId = 1
    /\ nextMsgId = 1
    /\ last = [req |-> Request("init", "c1", 0, FALSE, NoForm),
               resp |-> render_template(""), repeat |-> FALSE,
               found |-> EmptyBag]

Next ==
    \E c \in Clients :
        \/ \E sub \in Submissions(UserAddForm) : signup(c, sub.form, sub.valid)
        \/ \E sub \in Submissions(LoginForm) : login(c, sub.form, sub.valid)
        \/ \E valid \in BOOLEAN : logout(c, valid)
        \/ list_users(c)
        \/ \E id \in UserIds : show_user(c, id)
        \/ \E id \in UserIds : show_following(c, id)
        \/ \E id \in UserIds : show_followers(c, id)
        \/ \E id \in UserIds : show_favorite_warbles(c, id)
        \/ \E id \in UserIds, valid \in BOOLEAN : start_following(c, id, valid)
        \/ \E id \in UserIds, valid \in BOOLEAN : stop_following(c, id, valid)
        \/ \E sub \in Submissions(EditForm) : profile(c, sub.form, sub.valid)
        \/ \E valid \in BOOLEAN : delete_user(c, valid)
        \/ \E sub \in Submissions(MessageForm) : add_message(c, sub.form, sub.valid)
        \/ \E id \in MessageIds : show_message(c, id)
        \/ \E id \in MessageIds, valid \in BOOLEAN : delete_message(c, id, valid)
        \/ \E id \in MessageIds, valid \in BOOLEAN : handle_favorites(c, id, valid)
        \/ homepage(c)

Spec == Init /\ [][Next]_vars

\* A store with about PAGE_SIZE messages: three accounts have signed up and
\* written the messages in turn (every message by the first account, by the
\* first two alternately, or by all three in rotation).
FeedUsers ==
    (1 :> User_signup("u1", "pw1", "e1", DEFAULT_IMAGE_URL))
    @@ (2 :> User_signup("u2", "pw2", "e2", DEFAULT_IMAGE_URL))
    @@ (3 :> User_signup("u3", "pw3", "e3", DEFAULT_IMAGE_URL))

InitFeed ==
    /\ users = FeedUsers
    /\ \E n \in (PAGE_SIZE - FeedExtra)..(PAGE_SIZE + FeedExtra), authors \in 1..3 :
          /\ messages = [i \in 1..n |-> [text |-> "Hello",
                                         user_id |-> (i % authors) + 1,
                                         timestamp |-> i]]
          /\ nextMsgId = n + 1
    /\ follows = EmptyBag
    /\ likes = EmptyBag
    /\ session = [c \in Clients |-> None]
    /\ nextUserId = 4
    /\ last = [req |-> Request("init", "c1", 0, FALSE, NoForm),
               resp |-> render_template(""), repeat |-> FALSE,
               found |-> EmptyBag]

NextFeed ==
    \E c \in Clients :
        \/ \E form \in LoginForm : login(c, form, TRUE)
        \/ \E id \in DOMAIN FeedUsers : start_following(c, id, TRUE)
        \/ \E id \in DOMAIN FeedUsers : stop_following(c, id, TRUE)
        \/ homepage(c)

SpecFeed == InitFeed /\ [][NextFeed]_vars

-----------------------------------------------------------------------------
\* Properties.  In an action formula, last' is the request the step handles
\* and the unprimed variables are the state the request found.

g_user(c) == add_user_and_csrf_to_g(c).user

Rejected(resp) == resp.status = "redirect" /\ resp.flash # ""

PublicPages == { <<"/", 0>>, <<"/login", 0>>, <<"/signup", 0>> }

GatedRoutes ==
    { "logout", "list_users", "show_user", "show_following", "show_followers",
      "show_favorite_warbles", "start_following", "stop_following", "profile",
      "delete_user", "add_message", "show_message", "delete_message",
      "handle_favorites" }

\* C1: every gated route answers a request whose session holds no
\* current-user identifier with a redirect to a public page and a flashed
\* error notice, never with an exception or a not-found response, and leaves
\* users, messages, follow edges and like edges unchanged.
C1_AnonymousRejected ==
    [][ (last'.req.op \in GatedRoutes /\ session[last'.req.client] = None)
          => /\ Rejected(last'.resp)
             /\ last'.resp.to \in PublicPages
             /\ store' = store ]_vars

\* C2: a delete_message request for an existing message removes it only when
\* the current user is its owner: a request of a logged-in user who is not
\* the owner, or of an anonymous caller, leaves the message in place and is
\* rejected with a flashed redirect; the owner's request (the owner's session
\* and the anti-forgery token bound to it) removes the message and redirects
\* to the owner's page.  A request from the owner's session that fails the
\* anti-forgery check is not taken as the owner's: it is refused as
\* Unauthorized and the message stays.
C2_OnlyOwnerDeletes ==
    [][ (last'.req.op = "delete_message" /\ last'.req.arg \in DOMAIN messages)
          => LET m == last'.req.arg
                 u == g_user(last'.req.client)
             IN IF u # None /\ messages[m].user_id = u
                THEN IF last'.req.valid
                     THEN /\ m \notin DOMAIN messages'
                          /\ last'.resp = redirect("/users", u, "")
                     ELSE /\ m \in DOMAIN messages'
                          /\ last'.resp.status = "unauthorized"
                ELSE m \in DOMAIN messages' /\ Rejected(last'.resp) ]_vars

\* C2 witness: the owner's deletion has gone through and the message is gone.
C2_Witness ==
    /\ last.req.op = "delete_message"
    /\ last.resp.status = "redirect"
    /\ last.resp.to = <<"/users", session[last.req.client]>>
    /\ last.req.arg \notin DOMAIN messages
    /\ DOMAIN messages # {}

ReferentialIntegrity ==
    /\ \A m \in DOMAIN messages : messages[m].user_id \in DOMAIN users
    /\ \A r \in BagToSet(follows) : r[1] \in DOMAIN users /\ r[2] \in DOMAIN users
    /\ \A r \in BagToSet(likes) : r[1] \in DOMAIN users /\ r[2] \in DOMAIN messages

\* C3: once delete_user has succeeded for the logged-in user u, the store
\* holds no user u, no message by u and no follow or like edge with u, and
\* the requesting session holds no current-user identifier; and in every
\* state the owner of each message and the endpoints of each edge exist.
C3_DeleteUserCascades ==
    /\ []ReferentialIntegrity
    /\ [][ (last'.req.op = "delete_user" /\ last'.resp = redirect("/signup", 0, ""))
             => LET u == session[last'.req.client]
                IN /\ u \notin DOMAIN users'
                   /\ \A m \in DOMAIN messages' : messages'[m].user_id # u
                   /\ \A r \in BagToSet(follows') : r[1] # u /\ r[2] # u
                   /\ \A r \in BagToSet(likes') : r[1] # u
                   /\ session'[last'.req.client] = None ]_vars

\* C3 witness: a user who had written a message has been deleted.
C3_Witness ==
    /\ last.req.op = "delete_user"
    /\ last.resp = redirect("/signup", 0, "")
    /\ nextMsgId > 1
    /\ DOMAIN messages = {}
    /\ DOMAIN users # {}

UsernameTaken(username) == \E u \in DOMAIN users : users[u].username = username

\* C4: a signup whose username belongs to an existing account fails: the
\* form is shown again, the users (hence the existing account's fields) and
\* the rest of the store are as before, and the caller's session holds no
\* current-user identifier.
C4_DuplicateSignupFails ==
    [][ (last'.req.op = "signup" /\ UsernameTaken(last'.req.form.username))
          => /\ last'.resp.status = "render"
             /\ last'.resp.to = <<"users/signup.html", 0>>
             /\ users' = users
             /\ store' = store
             /\ nextUserId' = nextUserId
             /\ session'[last'.req.client] = None ]_vars

\* C4 witness: a duplicate signup was turned down while another account exists.
C4_Witness ==
    /\ last.req.op = "signup"
    /\ last.resp.flash = "Username already taken"
    /\ UsernameTaken(last.req.form.username)

NoSelfFollow == \A r \in BagToSet(follows) : r[1] # r[2]

\* C5: no follow edge (u, u) ever exists, and a start_following request of
\* the current user for themselves is rejected with a flashed message and
\* leaves the follow edges unchanged.
C5_NoSelfFollow ==
    /\ []NoSelfFollow
    /\ [][ (/\ last'.req.op = "start_following"
            /\ g_user(last'.req.client) # None
            /\ last'.req.arg = g_user(last'.req.client))
             => Rejected(last'.resp) /\ follows' = follows ]_vars

\* C5 witness: a self-follow was asked for and turned down.
C5_Witness ==
    /\ last.req.op = "start_following"
    /\ last.req.arg = session[last.req.client]
    /\ last.resp.flash = "You can not follow yourself."

\* C6: following and followers are two readings of one edge set: in every
\* state v is in u's following list exactly when u is in v's followers list;
\* once u has followed v both hold, and once u has unfollowed v neither does.
C6_FollowViewsAgree ==
    /\ [](\A u \in DOMAIN users, v \in DOMAIN users :
              is_following(u, v) <=> is_followed_by(v, u))
    /\ [][ (/\ last'.req.op \in {"start_following", "stop_following"}
            /\ g_user(last'.req.client) # None
            /\ last'.resp = redirect("/users/following", g_user(last'.req.client), ""))
             => LET u == g_user(last'.req.client)
                    v == last'.req.arg
                IN IF last'.req.op = "start_following"
                   THEN v \in Following(follows', u) /\ u \in Followers(follows', v)
                   ELSE v \notin Following(follows', u) /\ u \notin Followers(follows', v) ]_vars

\* C6 witness: u has followed v and then unfollowed v.
C6_Witness ==
    /\ last.req.op = "stop_following"
    /\ last.resp = redirect("/users/following", session[last.req.client], "")
    /\ ~is_following(session[last.req.client], last.req.arg)

\* C7: stop_following by a logged-in user for an existing user they do not
\* follow answers with the redirect to the current user's following page,
\* raises no error and leaves the follow edges unchanged.
C7_UnfollowAbsentIsNoOp ==
    [][ (/\ last'.req.op = "stop_following"
         /\ last'.req.valid
         /\ g_user(last'.req.client) # None
         /\ last'.req.arg \in DOMAIN users
         /\ ~is_following(g_user(last'.req.client), last'.req.arg))
          => /\ last'.resp = redirect("/users/following", g_user(last'.req.client), "")
             /\ follows' = follows ]_vars

NoDuplicateFollows == \A r \in BagToSet(follows) : CopiesIn(r, follows) = 1

C9_FavoriteToggles ==
    [][ (/\ last'.req.op = "handle_favorites"
         /\ last'.req.valid
         /\ g_user(last'.req.client) # None
         /\ last'.req.arg \in DOMAIN messages)
          => LET edge == Row(g_user(last'.req.client), last'.req.arg)
             IN /\ CopiesIn(edge, likes') = IF BagIn(edge, likes) THEN 0 ELSE 1
                /\ \A r \in (BagToSet(likes) \cup BagToSet(likes')) \ {edge} :
                       CopiesIn(r, likes') = CopiesIn(r, likes)
                /\ last'.repeat => likes' = last.found ]_vars

\* C9 witness: the second of two consecutive applications has taken the like
\* edge away again, another user's like edge staying.
C9_Witness ==
    /\ last.req.op = "handle_favorites"
    /\ last.repeat
    /\ last.req.valid
    /\ last.resp = redirect("origin_url", 0, "")
    /\ ~BagIn(Row(session[last.req.client], last.req.arg), likes)
    /\ BagToSet(likes) # {}

Range(f) == { f[i] : i \in DOMAIN f }

\* The messages that qualify for u's feed: written by u or by a user u follows.
Qualifying(u) ==
    { m \in DOMAIN messages :
        messages[m].user_id = u \/ is_following(u, messages[m].user_id) }

\* C10: the home feed of a logged-in user u holds only messages written by u
\* or by a user u follows, newest first, each once and at most PAGE_SIZE of
\* them: every qualifying message when no more than PAGE_SIZE qualify, and
\* otherwise exactly the PAGE_SIZE newest; an anonymous caller gets no
\* messages.
C10_HomeFeed ==
    last.req.op = "homepage" =>
        LET u == g_user(last.req.client)
            f == last.resp.messages
        IN IF u = None
           THEN f = <<>> /\ last.resp.to = <<"home-anon.html", 0>>
           ELSE /\ Range(f) \subseteq Qualifying(u)
                /\ \A i \in 1..(Len(f) - 1) :
                       messages[f[i]].timestamp >= messages[f[i + 1]].timestamp
                /\ Cardinality(Range(f)) = Len(f)
                /\ Len(f) <= PAGE_SIZE
                /\ Len(f) = IF Cardinality(Qualifying(u)) > PAGE_SIZE
                            THEN PAGE_SIZE ELSE Cardinality(Qualifying(u))
                /\ \A m \in Qualifying(u) \ Range(f) : \A i \in 1..Len(f) :
                       messages[m].timestamp <= messages[f[i]].timestamp

\* C10 witness: more than PAGE_SIZE messages qualify, some of them written by
\* a followed user, and the feed holds PAGE_SIZE of them.
C10_Witness ==
    /\ last.req.op = "homepage"
    /\ g_user(last.req.client) # None
    /\ Cardinality(Qualifying(g_user(last.req.client))) > PAGE_SIZE
    /\ Len(last.resp.messages) = PAGE_SIZE
    /\ \E i \in 1..Len(last.resp.messages) :
           messages[last.resp.messages[i]].user_id # g_user(last.req.client)

\* The credentials a login form supplies are user u's: the username is u's
\* and the password matches u's stored hash.
CredentialsOf(u, form) ==
    /\ users[u].username = form.username
    /\ check_password_hash(users[u].password, form.password)

\* C11, as stated: after a login request that submitted credentials, the
\* session carries user u's id only if the credentials supplied were u's.
C11_SessionOnlyWithCredentials ==
    [][ (/\ last'.req.op = "login"
         /\ last'.req.valid)
          => \A u \in DOMAIN users :
                 session'[last'.req.client] = u => CredentialsOf(u, last'.req.form) ]_vars

\* C11, amended: a login request raises no error and leaves the store alone;
\* when the submitted username belongs to a user and the password matches
\* that user's stored hash, the session carries that user's id and the
\* response redirects home; for an unknown username or a wrong password the
\* response is the login form with "Invalid credentials." and the session is
\* as the request found it.  So the session carries user u's id after a login
\* request only if the credentials supplied were u's or the session already
\* carried u's id.
C11_LoginNeedsCredentials ==
    [][ last'.req.op = "login"
          => LET c == last'.req.client
                 form == last'.req.form
                 matching == { u \in DOMAIN users : CredentialsOf(u, form) }
             IN /\ last'.resp.status # "error"
                /\ store' = store
                /\ Cardinality(matching) <= 1
                /\ IF last'.req.valid /\ matching # {}
                   THEN /\ session'[c] \in matching
                        /\ last'.resp = redirect("/", 0, "Hello!")
                   ELSE /\ session' = session
                        /\ last'.resp.status = "render"
                        /\ last'.resp.to = <<"users/login.html", 0>>
                        /\ last'.req.valid => last'.resp.flash = "Invalid credentials."
                /\ \A u \in DOMAIN users :
                       session'[c] = u =>
                           \/ last'.req.valid /\ CredentialsOf(u, form)
                           \/ session[c] = u ]_vars

\* C11 witness: a login with an existing user's username and a wrong password
\* was answered with "Invalid credentials." and the session holds nobody.
C11_Witness ==
    /\ last.req.op = "login"
    /\ last.req.valid
    /\ UsernameTaken(last.req.form.username)
    /\ \A u \in DOMAIN users : ~CredentialsOf(u, last.req.form)
    /\ last.resp = render_flash("users/login.html", "Invalid credentials.")
    /\ session[last.req.client] = None

====
